---------------------------- MODULE Spec2Model ----------------------------
(***************************************************************************)
(* Model of atom-to-rss-bald-to-bran.py: the AtomToRSSConverterApp form    *)
(* (two file pickers and a convert button) and the Atom -> RSS 2.0         *)
(* conversion done by process_feed.                                        *)
(*                                                                         *)
(* Text is modelled as a sequence of one-character strings, so that        *)
(* strip, replace, isoparse and format_datetime are computed character by  *)
(* character.  A parsed document is a tree of nodes as BeautifulSoup keeps *)
(* it: an element has a name, attributes (a sequence of <<key, value>>)    *)
(* and children; a text node has name "#text" and its characters in s.     *)
(* Python's None is the empty tuple and a present value x is <<x>>.        *)
(* A character that has no one-character TLA+ string is written by its     *)
(* code point, "U+" and four hexadecimal digits: "U+000B" is the vertical  *)
(* tab, "U+00A0" the no-break space, "U+00E9" the letter e with acute.     *)
(***************************************************************************)
EXTENDS Integers, Sequences, FiniteSets, TLC

VARIABLES
    input_file_path,   \* self.input_file_path
    output_file_path,  \* self.output_file_path
    log_area,          \* lines appended to self.log_area
    dialog,            \* the messagebox shown by the handler that ran last
    opened,            \* the open() calls made by the handler that ran last
    files,             \* the readable side of the file system: path -> file
    disk,              \* the written side of the file system: path -> file
    atom_soup,         \* process_feed's local atom_soup (None before the parse)
    rss_soup,          \* process_feed's local rss_soup  (None before it is built)
    count_items        \* process_feed's local count_items

vars == <<input_file_path, output_file_path, log_area, dialog, opened,
          files, disk, atom_soup, rss_soup, count_items>>

(***************************************************************************)
(* Bounds of the model.                                                    *)
(***************************************************************************)
MaxLog == 3
MaxEntries == 2
MaxContentLen == 6

(***************************************************************************)
(* Python values.                                                          *)
(***************************************************************************)
None == <<>>
Some(x) == <<x>>
NoPath == "None"

\* the ASCII characters written by code point: U+0000 .. U+007F
HexDigits == {"0", "1", "2", "3", "4", "5", "6", "7", "8", "9", "A", "B", "C", "D", "E", "F"}
NamedAscii == {"U+00" \o h \o l : h \in {"0", "1", "2", "3", "4", "5", "6", "7"}, l \in HexDigits}
\* c encodes to ASCII
IsAscii(c) == Len(c) = 1 \/ c \in NamedAscii

\* the characters for which str.isspace() is true
Whitespace ==
    {" ", "\t", "\n", "\r", "\f", "U+000B", "U+001C", "U+001D", "U+001E", "U+001F",
     "U+0085", "U+00A0", "U+1680", "U+2000", "U+2001", "U+2002", "U+2003", "U+2004",
     "U+2005", "U+2006", "U+2007", "U+2008", "U+2009", "U+200A", "U+2028", "U+2029",
     "U+202F", "U+205F", "U+3000"}

RECURSIVE lstrip(_)
lstrip(s) ==
    IF s = <<>> THEN <<>>
    ELSE IF Head(s) \in Whitespace THEN lstrip(Tail(s)) ELSE s

RECURSIVE rstrip(_)
rstrip(s) ==
    IF s = <<>> THEN <<>>
    ELSE IF s[Len(s)] \in Whitespace THEN rstrip(SubSeq(s, 1, Len(s) - 1)) ELSE s

\* str.strip()
strip(s) == rstrip(lstrip(s))

\* s.startswith(p)
startswith(s, p) == Len(s) >= Len(p) /\ SubSeq(s, 1, Len(p)) = p

\* str.replace(old, new) for a non-empty old: leftmost, non-overlapping matches
RECURSIVE replace(_, _, _)
replace(s, old, new) ==
    IF s = <<>> THEN <<>>
    ELSE IF startswith(s, old)
         THEN new \o replace(SubSeq(s, Len(old) + 1, Len(s)), old, new)
         ELSE <<Head(s)>> \o replace(Tail(s), old, new)

(***************************************************************************)
(* The BeautifulSoup tree.                                                 *)
(***************************************************************************)
Text(s) == [name |-> "#text", attrs |-> <<>>, s |-> s, kids |-> <<>>]
Elem(name, attrs, kids) == [name |-> name, attrs |-> attrs, s |-> <<>>, kids |-> kids]

\* rss_soup.new_tag(name)
new_tag(name) == Elem(name, <<>>, <<>>)

\* tag.append(child)
append(tag, child) == [tag EXCEPT !.kids = Append(@, child)]

\* tag.string = s: the children are replaced by one text node, even for s = ""
set_string(tag, s) == [tag EXCEPT !.kids = <<Text(s)>>]

\* tag.has_attr(key)
has_attr(tag, key) == \E i \in 1..Len(tag.attrs) : tag.attrs[i][1] = key

\* tag[key]
get_attr(tag, key) ==
    tag.attrs[CHOOSE i \in 1..Len(tag.attrs) :
                 /\ tag.attrs[i][1] = key
                 /\ \A j \in 1..(i - 1) : tag.attrs[j][1] # key][2]

\* tag.descendants: every node under tag, in document order
RECURSIVE descendants(_)
RECURSIVE descendants_of(_)
descendants_of(ks) ==
    IF ks = <<>> THEN <<>>
    ELSE <<Head(ks)>> \o descendants(Head(ks)) \o descendants_of(Tail(ks))
descendants(tag) == descendants_of(tag.kids)

IsElem(n, name) == n.name = name

\* tag.find_all(name)
find_all(tag, name) == SelectSeq(descendants(tag), LAMBDA n : IsElem(n, name))

First(seq) == IF seq = <<>> THEN None ELSE Some(Head(seq))

\* tag.find(name): the first element of that name in document order, or None
find(tag, name) == First(find_all(tag, name))

\* tag.find(name, rel=value): also the rel attribute must equal value exactly
find_rel(tag, name, value) ==
    First(SelectSeq(descendants(tag),
                    LAMBDA n : /\ IsElem(n, name)
                               /\ has_attr(n, "rel")
                               /\ get_attr(n, "rel") = value))

\* tag.string: the single text child (through single-child elements), else None
RECURSIVE string(_)
string(tag) ==
    IF Len(tag.kids) # 1 THEN None
    ELSE IF tag.kids[1].name = "#text" THEN Some(tag.kids[1].s)
    ELSE string(tag.kids[1])

\* tag.get_text(strip=True): the stripped, non-empty text runs, joined
RECURSIVE stripped_strings(_)
stripped_strings(ns) ==
    IF ns = <<>> THEN <<>>
    ELSE IF Head(ns).name = "#text" /\ strip(Head(ns).s) # <<>>
         THEN strip(Head(ns).s) \o stripped_strings(Tail(ns))
         ELSE stripped_strings(Tail(ns))
get_text_strip(tag) == stripped_strings(descendants(tag))

\* bool(x) of a str or of None (a Tag is always true: Tag.__bool__)
Truthy(opt) == opt # None /\ opt[1] # <<>>


(***************************************************************************)
(* Results of calls that may raise: Fail is "an exception was raised".     *)
(***************************************************************************)
Fail == [ok |-> FALSE, v |-> <<>>]
Ok(v) == [ok |-> TRUE, v |-> v]

\* s[a:b] of Python (0-based, end-exclusive, clipped to the string)
Slice(s, a, b) ==
    LET hi == IF b > Len(s) THEN Len(s) ELSE b
    IN  IF a >= hi THEN <<>> ELSE SubSeq(s, a + 1, hi)

Digits == <<"0", "1", "2", "3", "4", "5", "6", "7", "8", "9">>
IsDigit(c) == \E i \in 1..10 : Digits[i] = c
DigitVal(c) == (CHOOSE i \in 1..10 : Digits[i] = c) - 1

RECURSIVE DigitsVal(_, _)
DigitsVal(s, acc) ==
    IF s = <<>> THEN acc ELSE DigitsVal(Tail(s), acc * 10 + DigitVal(Head(s)))

\* the bytes int() skips at both ends of its argument
BytesWhitespace == {" ", "\t", "\n", "\r", "\f", "U+000B"}

RECURSIVE int_lstrip(_)
int_lstrip(s) ==
    IF s = <<>> THEN <<>>
    ELSE IF Head(s) \in BytesWhitespace THEN int_lstrip(Tail(s)) ELSE s

RECURSIVE int_rstrip(_)
int_rstrip(s) ==
    IF s = <<>> THEN <<>>
    ELSE IF s[Len(s)] \in BytesWhitespace THEN int_rstrip(SubSeq(s, 1, Len(s) - 1)) ELSE s

\* the digits of an int() literal: digits, with single underscores between them
int_digits(s) ==
    /\ s # <<>>
    /\ \A i \in 1..Len(s) : IsDigit(s[i]) \/ s[i] = "_"
    /\ IsDigit(s[1]) /\ IsDigit(s[Len(s)])
    /\ \A i \in 1..(Len(s) - 1) : ~(s[i] = "_" /\ s[i + 1] = "_")

int_signed(sign, s) ==
    IF int_digits(s) THEN Ok(sign * DigitsVal(SelectSeq(s, IsDigit), 0)) ELSE Fail

int_stripped(s) ==
    IF s = <<>> THEN Fail
    ELSE IF Head(s) = "-" THEN int_signed(-1, Tail(s))
    ELSE IF Head(s) = "+" THEN int_signed(1, Tail(s))
    ELSE int_signed(1, s)

\* int(s) of a bytes string, base 10: optional whitespace, an optional sign, the
\* digits, optional whitespace; anything else raises ValueError
ParseInt(s) == int_stripped(int_rstrip(int_lstrip(s)))

RECURSIVE Pow10(_)
Pow10(n) == IF n = 0 THEN 1 ELSE 10 * Pow10(n - 1)

(***************************************************************************)
(* dateutil.parser.isoparse, as called at line 160.                        *)
(***************************************************************************)
\* isoparser._parse_isodate_common: YYYY, YYYY-MM, YYYY-MM-DD, YYYYMMDD
parse_isodate_common(dt_str) ==
    LET len_str == Len(dt_str)
        year == ParseInt(Slice(dt_str, 0, 4))
        has_sep == Slice(dt_str, 4, 5) = <<"-">>
        mpos == IF has_sep THEN 5 ELSE 4
        month == ParseInt(Slice(dt_str, mpos, mpos + 2))
        dpos == IF has_sep THEN mpos + 3 ELSE mpos + 2
        day == ParseInt(Slice(dt_str, dpos, dpos + 2))
    IN  IF len_str < 4 \/ ~year.ok THEN Fail
        ELSE IF 4 >= len_str THEN Ok([c |-> <<year.v, 1, 1>>, pos |-> 4])
        ELSE IF len_str - mpos < 2 \/ ~month.ok THEN Fail
        ELSE IF mpos + 2 >= len_str
             THEN IF has_sep THEN Ok([c |-> <<year.v, month.v, 1>>, pos |-> mpos + 2])
                  ELSE Fail
        ELSE IF has_sep /\ Slice(dt_str, mpos + 2, mpos + 3) # <<"-">> THEN Fail
        ELSE IF len_str - dpos < 2 \/ ~day.ok THEN Fail
        ELSE Ok([c |-> <<year.v, month.v, day.v>>, pos |-> dpos + 2])

\* calendar of datetime
IsLeap(y) == (y % 4 = 0) /\ ((y % 100 # 0) \/ (y % 400 = 0))
DaysInMonth(y, m) ==
    IF m = 2 THEN (IF IsLeap(y) THEN 29 ELSE 28)
    ELSE IF m \in {4, 6, 9, 11} THEN 30 ELSE 31

RECURSIVE DaysBeforeMonth(_, _)
DaysBeforeMonth(y, m) ==
    IF m = 1 THEN 0 ELSE DaysBeforeMonth(y, m - 1) + DaysInMonth(y, m - 1)

\* date.toordinal()
toordinal(y, m, d) ==
    LET p == y - 1
    IN  p * 365 + (p \div 4) - (p \div 100) + (p \div 400) + DaysBeforeMonth(y, m) + d

\* date(year, month, day): ValueError when a field is out of range
date(y, m, d) ==
    IF y \in 1..9999 /\ m \in 1..12 /\ d >= 1 /\ d <= DaysInMonth(y, m)
    THEN Ok([year |-> y, month |-> m, day |-> d]) ELSE Fail

\* the month and day of the n-th day (from 0) of year y
RECURSIVE month_and_day(_, _, _)
month_and_day(y, m, n) ==
    IF n < DaysInMonth(y, m) THEN [year |-> y, month |-> m, day |-> n + 1]
    ELSE month_and_day(y, m + 1, n - DaysInMonth(y, m))

\* datetime._ord2ymd, after the 400-, 100-, 4- and 1-year cycles were counted
ord2ymd_year(n400, n100, n4, n1, n) ==
    IF n1 = 4 \/ n100 = 4
    THEN [year |-> n400 * 400 + n100 * 100 + n4 * 4 + n1, month |-> 12, day |-> 31]
    ELSE month_and_day(n400 * 400 + 1 + n100 * 100 + n4 * 4 + n1, 1, n)

\* date.fromordinal(n + 1), for 0 <= n
ord2ymd(n) ==
    ord2ymd_year(n \div 146097,
                 (n % 146097) \div 36524,
                 ((n % 146097) % 36524) \div 1461,
                 (((n % 146097) % 36524) % 1461) \div 365,
                 (((n % 146097) % 36524) % 1461) % 365)

\* a date plus or minus a timedelta of whole days, given as the ordinal of the
\* result: OverflowError outside date.min .. date.max
date_of_ordinal(n) ==
    IF n < 1 \/ n > toordinal(9999, 12, 31) THEN Fail ELSE Ok(ord2ymd(n - 1))

\* isoparser._calculate_weekdate: week 1 is the week of January 4th
week_1(jan_4) == jan_4 - ((jan_4 + 6) % 7)
calculate_weekdate(year, week, day) ==
    IF ~(0 < week /\ week < 54) THEN Fail
    ELSE IF ~(0 < day /\ day < 8) THEN Fail
    ELSE IF ~date(year, 1, 4).ok THEN Fail
    ELSE date_of_ordinal(week_1(toordinal(year, 1, 4)) + (week - 1) * 7 + (day - 1))

\* the tail of _parse_isodate_uncommon: components and pos from base_date
isodate_base(base_date, pos) ==
    IF ~base_date.ok THEN Fail
    ELSE Ok([c |-> <<base_date.v.year, base_date.v.month, base_date.v.day>>, pos |-> pos])

\* YYYY-?Www-?D?, from the position after the W
isodate_weekday(year, weekno, dayno, pos) ==
    IF ~weekno.ok \/ ~dayno.ok THEN Fail
    ELSE isodate_base(calculate_weekdate(year, weekno.v, dayno.v), pos)

isodate_week(dt_str, year, has_sep, pos) ==
    IF Len(dt_str) > pos + 2
    THEN IF (Slice(dt_str, pos + 2, pos + 3) = <<"-">>) # has_sep THEN Fail
         ELSE isodate_weekday(year, ParseInt(Slice(dt_str, pos, pos + 2)),
                              ParseInt(Slice(dt_str, pos + 2 + (IF has_sep THEN 1 ELSE 0),
                                             pos + 3 + (IF has_sep THEN 1 ELSE 0))),
                              pos + 3 + (IF has_sep THEN 1 ELSE 0))
    ELSE isodate_weekday(year, ParseInt(Slice(dt_str, pos, pos + 2)), Ok(1), pos + 2)

\* YYYYDDD or YYYY-DDD
isodate_ordinal_day(year, ordinal_day, pos) ==
    IF ~ordinal_day.ok THEN Fail
    ELSE IF ordinal_day.v < 1 \/ ordinal_day.v > 365 + (IF IsLeap(year) THEN 1 ELSE 0) THEN Fail
    ELSE IF ~date(year, 1, 1).ok THEN Fail
    ELSE isodate_base(date_of_ordinal(toordinal(year, 1, 1) + ordinal_day.v - 1), pos)

isodate_ordinal(dt_str, year, pos) ==
    IF Len(dt_str) - pos < 3 THEN Fail
    ELSE isodate_ordinal_day(year, ParseInt(Slice(dt_str, pos, pos + 3)), pos + 3)

isodate_uncommon(dt_str, year, has_sep, pos) ==
    IF ~year.ok THEN Fail
    ELSE IF Slice(dt_str, pos, pos + 1) = <<"W">>
    THEN isodate_week(dt_str, year.v, has_sep, pos + 1)
    ELSE isodate_ordinal(dt_str, year.v, pos)

\* isoparser._parse_isodate_uncommon: ISO week dates and ordinal dates
parse_isodate_uncommon(dt_str) ==
    IF Len(dt_str) < 4 THEN Fail
    ELSE isodate_uncommon(dt_str, ParseInt(Slice(dt_str, 0, 4)),
                          Slice(dt_str, 4, 5) = <<"-">>,
                          IF Slice(dt_str, 4, 5) = <<"-">> THEN 5 ELSE 4)

\* isoparser._parse_isodate: the common formats, and on their ValueError the
\* uncommon ones
isodate_or_uncommon(common, dt_str) ==
    IF common.ok THEN common ELSE parse_isodate_uncommon(dt_str)
parse_isodate(dt_str) == isodate_or_uncommon(parse_isodate_common(dt_str), dt_str)

\* isoparser._parse_tzstr: Z, +HH, +HHMM, +HH:MM; the tzinfo is its offset in minutes
tz_offset(mult, hours, minutes) ==
    IF ~hours.ok \/ ~minutes.ok THEN Fail
    ELSE IF hours.v = 0 /\ minutes.v = 0 THEN Ok(0)
    ELSE IF minutes.v > 59 \/ hours.v > 23 THEN Fail
    ELSE Ok(mult * (hours.v * 60 + minutes.v))

parse_tzstr(tzstr) ==
    IF tzstr = <<"Z">> \/ tzstr = <<"z">> THEN Ok(0)
    ELSE IF Len(tzstr) \notin {3, 5, 6} THEN Fail
    ELSE IF Head(tzstr) \notin {"-", "+"} THEN Fail
    ELSE tz_offset(IF Head(tzstr) = "-" THEN -1 ELSE 1,
                   ParseInt(Slice(tzstr, 1, 3)),
                   IF Len(tzstr) = 3 THEN Ok(0)
                   ELSE ParseInt(Slice(tzstr, IF Slice(tzstr, 3, 4) = <<":">> THEN 4 ELSE 3,
                                       Len(tzstr))))

\* the digits matched by _FRACTION_REGEX = [\.,]([0-9]+) at the head of s
RECURSIVE DigitRun(_)
DigitRun(s) ==
    IF s # <<>> /\ IsDigit(Head(s)) THEN <<Head(s)>> \o DigitRun(Tail(s)) ELSE <<>>

\* isoparser._parse_isotime: the while loop, one call of isotime_loop per
\* iteration.  c is <<hour, minute, second, microsecond>>, comp0 is comp before
\* the iteration's comp += 1.
RECURSIVE isotime_loop(_, _, _, _, _)

\* comp < 3: components[comp] = int(timestr[pos:pos + 2]); pos += 2
isotime_number(timestr, pos, comp, has_sep, c, num) ==
    IF ~num.ok THEN Fail
    ELSE isotime_loop(timestr, pos + 2, comp, has_sep, [c EXCEPT ![comp + 1] = num.v])

\* comp == 3: the fraction, truncated to microseconds; no match: continue
isotime_fraction(timestr, pos, comp, has_sep, c, frac) ==
    IF frac = <<>> THEN isotime_loop(timestr, pos, comp, has_sep, c)
    ELSE isotime_loop(timestr, pos + 1 + Len(frac), comp, has_sep,
                      [c EXCEPT ![4] = DigitsVal(Slice(frac, 0, 6), 0)
                                         * Pow10(6 - Len(Slice(frac, 0, 6)))])

isotime_field(timestr, pos, comp, has_sep, c) ==
    IF comp < 3
    THEN isotime_number(timestr, pos, comp, has_sep, c, ParseInt(Slice(timestr, pos, pos + 2)))
    ELSE IF comp = 3
    THEN isotime_fraction(timestr, pos, comp, has_sep, c,
                          IF Slice(timestr, pos, pos + 1) \in {<<".">>, <<",">>}
                          THEN DigitRun(Slice(timestr, pos + 1, Len(timestr))) ELSE <<>>)
    ELSE isotime_loop(timestr, pos, comp, has_sep, c)

\* the colon handling of an iteration; ch is timestr[pos:pos + 1]
isotime_step(timestr, pos, comp, has_sep, c, ch) ==
    IF comp = 2 /\ has_sep /\ ch # <<":">> THEN Fail
    ELSE isotime_field(timestr,
                       IF (comp = 1 /\ ch = <<":">>) \/ (comp = 2 /\ has_sep)
                       THEN pos + 1 ELSE pos,
                       comp, has_sep \/ (comp = 1 /\ ch = <<":">>), c)

\* components[-1] = self._parse_tzstr(timestr[pos:]); break
isotime_zone(c, tz) == IF tz.ok THEN Ok([c |-> c, tz |-> Some(tz.v)]) ELSE Fail

isotime_loop(timestr, pos, comp0, has_sep, c) ==
    IF ~(pos < Len(timestr) /\ comp0 < 5)
    THEN IF pos < Len(timestr) THEN Fail ELSE Ok([c |-> c, tz |-> None])
    ELSE IF Slice(timestr, pos, pos + 1) \in {<<"-">>, <<"+">>, <<"Z">>, <<"z">>}
    THEN isotime_zone(c, parse_tzstr(Slice(timestr, pos, Len(timestr))))
    ELSE isotime_step(timestr, pos, comp0 + 1, has_sep, c, Slice(timestr, pos, pos + 1))

\* the hour may only be 24 at 24:00:00.000
isotime_midnight(r) ==
    IF ~r.ok THEN Fail
    ELSE IF r.v.c[1] = 24 /\ (r.v.c[2] # 0 \/ r.v.c[3] # 0 \/ r.v.c[4] # 0) THEN Fail
    ELSE r

parse_isotime(timestr) ==
    IF Len(timestr) < 2 THEN Fail
    ELSE isotime_midnight(isotime_loop(timestr, 0, -1, FALSE, <<0, 0, 0, 0>>))

\* datetime(year, month, day, hour, minute, second, microsecond, tzinfo):
\* ValueError when a field is out of range
datetime(y, m, d, hh, mm, ss, us, tz) ==
    IF /\ y \in 1..9999 /\ m \in 1..12 /\ d >= 1 /\ d <= DaysInMonth(y, m)
       /\ hh \in 0..23 /\ mm \in 0..59 /\ ss \in 0..59 /\ us \in 0..999999
    THEN Ok([year |-> y, month |-> m, day |-> d, hour |-> hh, minute |-> mm,
             second |-> ss, microsecond |-> us, tzinfo |-> tz])
    ELSE Fail

\* dt + timedelta(days=1): OverflowError past year 9999
plus_one_day(dt) ==
    IF dt.day < DaysInMonth(dt.year, dt.month) THEN Ok([dt EXCEPT !.day = @ + 1])
    ELSE IF dt.month < 12 THEN Ok([dt EXCEPT !.day = 1, !.month = @ + 1])
    ELSE IF dt.year < 9999 THEN Ok([dt EXCEPT !.day = 1, !.month = 1, !.year = @ + 1])
    ELSE Fail

\* isoparse, after the time was parsed: 24:00 is 00:00 of the next day
isoparse_next_day(dt) == IF dt.ok THEN plus_one_day(dt.v) ELSE Fail
isoparse_datetime(dc, t) ==
    IF ~t.ok THEN Fail
    ELSE IF t.v.c[1] = 24
    THEN isoparse_next_day(datetime(dc[1], dc[2], dc[3], 0, t.v.c[2], t.v.c[3], t.v.c[4],
                                    t.v.tz))
    ELSE datetime(dc[1], dc[2], dc[3], t.v.c[1], t.v.c[2], t.v.c[3], t.v.c[4], t.v.tz)

\* isoparse, after the date was parsed: any single character separates the time
isoparse_date(dt_str, d) ==
    IF ~d.ok THEN Fail
    ELSE IF Len(dt_str) > d.v.pos
    THEN isoparse_datetime(d.v.c, parse_isotime(Slice(dt_str, d.v.pos + 1, Len(dt_str))))
    ELSE datetime(d.v.c[1], d.v.c[2], d.v.c[3], 0, 0, 0, 0, None)

\* isoparser.isoparse(dt_str): the _takes_ascii wrapper raises ValueError for
\* a string that does not encode to ASCII
isoparse(dt_str) ==
    IF \E i \in 1..Len(dt_str) : ~IsAscii(dt_str[i]) THEN Fail
    ELSE isoparse_date(dt_str, parse_isodate(dt_str))

(***************************************************************************)
(* email.utils.format_datetime, as called at line 162.                     *)
(***************************************************************************)
RECURSIVE DecDigits(_)
DecDigits(n) ==
    IF n < 10 THEN <<Digits[n + 1]>> ELSE DecDigits(n \div 10) \o <<Digits[(n % 10) + 1]>>

RECURSIVE ZeroFill(_, _)
ZeroFill(s, width) == IF Len(s) >= width THEN s ELSE ZeroFill(<<"0">> \o s, width)

\* '%0<width>d' % n, for n >= 0
Pad(n, width) == ZeroFill(DecDigits(n), width)

DayNames == << <<"M","o","n">>, <<"T","u","e">>, <<"W","e","d">>, <<"T","h","u">>,
               <<"F","r","i">>, <<"S","a","t">>, <<"S","u","n">> >>
MonthNames == << <<"J","a","n">>, <<"F","e","b">>, <<"M","a","r">>, <<"A","p","r">>,
                 <<"M","a","y">>, <<"J","u","n">>, <<"J","u","l">>, <<"A","u","g">>,
                 <<"S","e","p">>, <<"O","c","t">>, <<"N","o","v">>, <<"D","e","c">> >>

\* a weekday counted from Sunday
weekday_from_sunday(dt) == toordinal(dt.year, dt.month, dt.day) % 7

\* dt.weekday(): Monday is 0
weekday(dt) == (toordinal(dt.year, dt.month, dt.day) + 6) % 7

\* dt.strftime("%z") of an aware datetime
strftime_z(minutes) ==
    LET a == IF minutes < 0 THEN -minutes ELSE minutes
    IN  <<IF minutes < 0 THEN "-" ELSE "+">> \o Pad(a \div 60, 2) \o Pad(a % 60, 2)

\* email.utils.format_datetime(dt): '%s, %02d %s %04d %02d:%02d:%02d %s'
format_datetime(dt) ==
    LET zone == IF dt.tzinfo = None THEN <<"-", "0", "0", "0", "0">>
                ELSE strftime_z(dt.tzinfo[1])
    IN  DayNames[weekday(dt) + 1] \o <<",", " ">> \o Pad(dt.day, 2) \o <<" ">>
        \o MonthNames[dt.month] \o <<" ">> \o Pad(dt.year, 4) \o <<" ">>
        \o Pad(dt.hour, 2) \o <<":">> \o Pad(dt.minute, 2) \o <<":">> \o Pad(dt.second, 2)
        \o <<" ">> \o zone

(***************************************************************************)
(* Reading the result back: the channel and its items.                     *)
(***************************************************************************)
ChannelOf(rss) == rss.kids[1].kids[1]
ItemsOf(rss) == SelectSeq(ChannelOf(rss).kids, LAMBDA n : IsElem(n, "item"))
\* the children of tag named name, in order
Children(tag, name) == SelectSeq(tag.kids, LAMBDA n : IsElem(n, name))
\* the text of tag's only child named name (None when there is no such child)
ChildText(tag, name) ==
    IF Children(tag, name) = <<>> THEN None ELSE Some(Children(tag, name)[1].kids[1].s)

(***************************************************************************)
(* process_feed, lines 92-183: the RSS tree built from the parsed feed.    *)
(***************************************************************************)
Alternate == <<"a", "l", "t", "e", "r", "n", "a", "t", "e">>
DefaultTitle == <<"A", "t", "o", "m", " ", "t", "o", " ", "R", "S", "S", " ", "F", "e", "e", "d">>
DefaultLink == <<"h", "t", "t", "p", ":", "/", "/", "e", "x", "a", "m", "p", "l", "e", ".", "c", "o", "m">>
DefaultDescription == <<"C", "o", "n", "v", "e", "r", "t", "e", "d", " ", "f", "r", "o", "m", " ", "A", "t", "o", "m", " ", "f", "e", "e", "d">>
ContentNamespace == <<"h", "t", "t", "p", ":", "/", "/", "p", "u", "r", "l", ".", "o", "r", "g", "/", "r", "s", "s", "/", "1", ".", "0", "/", "m", "o", "d", "u", "l", "e", "s", "/", "c", "o", "n", "t", "e", "n", "t", "/">>
CDataOpen == <<"<", "!", "[", "C", "D", "A", "T", "A", "[">>
CDataClose == <<"]", "]", ">">>
CDataSplit == <<"]", "]", "]", "]", ">", "<", "!", "[", "C", "D", "A", "T", "A", "[", ">">>

\* a title looked up among the feed element's own children only
channel_title_own(soup) ==
    IF soup.kids # <<>> /\ Children(soup.kids[1], "title") # <<>>
    THEN get_text_strip(Children(soup.kids[1], "title")[1]) ELSE DefaultTitle

\* lines 104-124: the channel's title, link and description
channel_title(soup) ==
    LET feed_title == find(soup, "title")
    IN  IF feed_title # None THEN get_text_strip(feed_title[1]) ELSE DefaultTitle

channel_link(soup) ==
    LET feed_link == find_rel(soup, "link", Alternate)
    IN  IF feed_link # None /\ has_attr(feed_link[1], "href")
        THEN get_attr(feed_link[1], "href") ELSE DefaultLink

channel_description(soup) ==
    LET feed_subtitle == find(soup, "subtitle")
    IN  IF feed_subtitle # None THEN get_text_strip(feed_subtitle[1])
        ELSE DefaultDescription

\* lines 132-137: the item's title
item_title(entry) ==
    LET entry_title == find(entry, "title")
    IN  IF entry_title # None
        THEN <<set_string(new_tag("title"), get_text_strip(entry_title[1]))>>
        ELSE <<>>

\* lines 139-144: the item's link
item_link(entry) ==
    LET alt_link == find_rel(entry, "link", Alternate)
    IN  IF alt_link # None /\ has_attr(alt_link[1], "href")
        THEN <<set_string(new_tag("link"), get_attr(alt_link[1], "href"))>>
        ELSE <<>>

\* lines 149-155: date_str, None when neither branch is taken
entry_date_str(entry) ==
    LET published_tag == find(entry, "published")
        updated_tag == find(entry, "updated")
    IN  IF published_tag # None /\ Truthy(string(published_tag[1]))
        THEN Some(strip(string(published_tag[1])[1]))
        ELSE IF updated_tag # None /\ Truthy(string(updated_tag[1]))
        THEN Some(strip(string(updated_tag[1])[1]))
        ELSE None

\* a handler that still emits the element when the parse raised
try_pubDate_placeholder(dt) ==
    IF ~dt.ok THEN <<set_string(new_tag("pubDate"), <<>>)>>
    ELSE <<set_string(new_tag("pubDate"), format_datetime(dt.v))>>

\* lines 158-167: try: isoparse, format_datetime, append; except Exception: pass
try_pubDate(dt) ==
    IF ~dt.ok THEN <<>> ELSE <<set_string(new_tag("pubDate"), format_datetime(dt.v))>>

\* lines 157-167: the item's pubDate for date_str
pubDate_of(date_str) ==
    IF ~Truthy(date_str) THEN <<>> ELSE try_pubDate(isoparse(date_str[1]))

item_pubDate(entry) == pubDate_of(entry_date_str(entry))

\* lines 175-176: the CDATA wrapping of the content text
cdata_str(raw_html) == CDataOpen \o replace(raw_html, CDataClose, CDataSplit) \o CDataClose

\* lines 169-180: the item's content:encoded
item_content(entry) ==
    LET content_tag == find(entry, "content")
    IN  IF content_tag # None /\ Truthy(string(content_tag[1]))
        THEN <<set_string(new_tag("content:encoded"), cdata_str(string(content_tag[1])[1]))>>
        ELSE <<>>

\* lines 130-182: the item built from one entry
convert_entry(entry) ==
    Elem("item", <<>>,
         item_title(entry) \o item_link(entry) \o item_pubDate(entry) \o item_content(entry))

\* a loop that appends an item only when it has a child
RECURSIVE convert_entries_skip(_, _, _)
convert_entries_skip(entries, channel_tag, count) ==
    IF entries = <<>> THEN [channel |-> channel_tag, count_items |-> count]
    ELSE IF convert_entry(Head(entries)).kids = <<>>
    THEN convert_entries_skip(Tail(entries), channel_tag, count)
    ELSE convert_entries_skip(Tail(entries),
                              append(channel_tag, convert_entry(Head(entries))), count + 1)

\* lines 127-183: the loop; channel_tag gets one item per entry, in order
RECURSIVE convert_entries(_, _, _)
convert_entries(entries, channel_tag, count) ==
    IF entries = <<>> THEN [channel |-> channel_tag, count_items |-> count]
    ELSE convert_entries(Tail(entries), append(channel_tag, convert_entry(Head(entries))),
                         count + 1)

\* lines 94-101: the rss and channel tags
rss_tag0 ==
    Elem("rss", << <<"version", <<"2", ".", "0">> >>, <<"xmlns:content", ContentNamespace>> >>, <<>>)

\* lines 104-124: the channel with its title, link and description
channel_tag0(soup) ==
    Elem("channel", <<>>,
         << set_string(new_tag("title"), channel_title(soup)),
            set_string(new_tag("link"), channel_link(soup)),
            set_string(new_tag("description"), channel_description(soup)) >>)

rss_document(done) ==
    [rss_soup |-> Elem("[document]", <<>>, <<append(rss_tag0, done.channel)>>),
     count_items |-> done.count_items]

\* lines 92-183: rss_soup and count_items from atom_soup
build_rss(soup) ==
    rss_document(convert_entries(find_all(soup, "entry"), channel_tag0(soup), 0))

(***************************************************************************)
(* The file system and the two external calls of process_feed.             *)
(*                                                                         *)
(* A file is kept as what reading and parsing it give: kind "missing"      *)
(* cannot be opened or decoded; "wellformed" parses to soup; "malformed"   *)
(* is text that is not well-formed XML, which BeautifulSoup's "xml"        *)
(* builder (lxml with recover=True) repairs into soup without raising;     *)
(* "rejected" is markup the builder refuses (ParserRejectedMarkup).        *)
(***************************************************************************)
InputPaths == {"a.xml", "b.xml"}
OutputPaths == {"out.xml", "ro/out.xml"}

\* lines 77-78: open(path, "r", encoding="utf-8") and f.read()
read_file(file) == IF file.kind = "missing" THEN Fail ELSE Ok(file)

\* line 86: BeautifulSoup(atom_data, "xml")
BeautifulSoup(atom_data) == IF atom_data.kind = "rejected" THEN Fail ELSE Ok(atom_data.soup)

Amp == <<"&", "a", "m", "p", ";">>
Lt == <<"&", "l", "t", ";">>
Gt == <<"&", "g", "t", ";">>

\* the "minimal" output formatter: & < > become entities
RECURSIVE substitute_xml(_)
substitute_xml(s) ==
    IF s = <<>> THEN <<>>
    ELSE (IF Head(s) = "&" THEN Amp
          ELSE IF Head(s) = "<" THEN Lt
          ELSE IF Head(s) = ">" THEN Gt
          ELSE <<Head(s)>>) \o substitute_xml(Tail(s))

\* line 189: str(rss_soup.prettify()), kept as the tree whose text runs are
\* written entity-escaped and stripped; the indentation is not modelled
RECURSIVE prettify(_)
RECURSIVE prettify_all(_)
prettify_all(ks) ==
    IF ks = <<>> THEN <<>> ELSE <<prettify(Head(ks))>> \o prettify_all(Tail(ks))
prettify(node) ==
    IF node.name = "#text" THEN Text(strip(substitute_xml(node.s)))
    ELSE [node EXCEPT !.kids = prettify_all(node.kids)]

NoFile == [exists |-> FALSE, text |-> None]

(***************************************************************************)
(* The handlers.                                                           *)
(***************************************************************************)
NoDialog == [kind |-> "none", title |-> ""]
showerror(title) == [kind |-> "showerror", title |-> title]
showinfo(title) == [kind |-> "showinfo", title |-> title]

\* lines 40-43: self.log(message)
log(message, arg) == Append(log_area, [text |-> message, arg |-> arg])

\* a handler that stores the dialog's answer without looking at it
select_input_file_unchecked(file_path) ==
    /\ dialog' = NoDialog
    /\ opened' = <<>>
    /\ input_file_path' = IF file_path = "" THEN NoPath ELSE file_path
    /\ IF file_path # ""
       THEN /\ Len(log_area) < MaxLog
            /\ log_area' = log("Selected input file: ", file_path)
       ELSE UNCHANGED log_area
    /\ UNCHANGED <<output_file_path, files, disk, atom_soup, rss_soup, count_items>>

\* lines 45-53; file_path is "" when the dialog is cancelled
select_input_file(file_path) ==
    /\ dialog' = NoDialog
    /\ opened' = <<>>
    /\ IF file_path # ""
       THEN /\ Len(log_area) < MaxLog
            /\ input_file_path' = file_path
            /\ log_area' = log("Selected input file: ", file_path)
       ELSE UNCHANGED <<input_file_path, log_area>>
    /\ UNCHANGED <<output_file_path, files, disk, atom_soup, rss_soup, count_items>>

\* lines 55-64
select_output_file(file_path) ==
    /\ dialog' = NoDialog
    /\ opened' = <<>>
    /\ IF file_path # ""
       THEN /\ Len(log_area) < MaxLog
            /\ output_file_path' = file_path
            /\ log_area' = log("Selected output file: ", file_path)
       ELSE UNCHANGED <<output_file_path, log_area>>
    /\ UNCHANGED <<input_file_path, files, disk, atom_soup, rss_soup, count_items>>

SuccessText == "Successfully created RSS 2.0 feed with {count_items} <item> entries."

\* lines 185-197; write is how the write of lines 186-189 ends: "ok", "open_fails"
\* (open raises, the file is untouched) or "write_fails" (the file was truncated)
write_rss(write, soup, built) ==
    /\ atom_soup' = Some(soup)
    /\ rss_soup' = Some(built.rss_soup)
    /\ count_items' = built.count_items
    /\ opened' = <<[path |-> input_file_path, mode |-> "r"],
                   [path |-> output_file_path, mode |-> "w"]>>
    /\ IF write = "ok"
       THEN /\ disk' = [disk EXCEPT ![output_file_path] =
                           [exists |-> TRUE, text |-> Some(prettify(built.rss_soup))]]
            /\ log_area' = log(SuccessText, built.count_items)
            /\ dialog' = showinfo("Done")
       ELSE /\ disk' = IF write = "open_fails" THEN disk
                       ELSE [disk EXCEPT ![output_file_path] =
                               [exists |-> TRUE, text |-> None]]
            /\ log_area' = log("ERROR writing output file: ", "e")
            /\ dialog' = showerror("Write Error")

\* a return before the RSS tree is built: neither soup exists
aborted(shown, reads) ==
    /\ dialog' = shown
    /\ opened' = reads
    /\ atom_soup' = None /\ rss_soup' = None /\ count_items' = 0
    /\ UNCHANGED disk

\* lines 84-183
parse_feed(write, parsed) ==
    IF ~parsed.ok
    THEN /\ log_area' = log("ERROR parsing XML: ", "e")
         /\ aborted(showerror("XML Parse Error"), <<[path |-> input_file_path, mode |-> "r"]>>)
    ELSE write_rss(write, parsed.v, build_rss(parsed.v))

\* lines 75-82
read_feed(write, data) ==
    IF ~data.ok
    THEN /\ log_area' = log("ERROR reading input file: ", "e")
         /\ aborted(showerror("File Read Error"), <<[path |-> input_file_path, mode |-> "r"]>>)
    ELSE parse_feed(write, BeautifulSoup(data.v))

\* lines 66-197
process_feed(write) ==
    /\ UNCHANGED <<input_file_path, output_file_path, files>>
    /\ IF input_file_path = NoPath
       THEN /\ aborted(showerror("Error: No input file selected."), <<>>)
            /\ UNCHANGED log_area
       ELSE IF output_file_path = NoPath
       THEN /\ aborted(showerror("Error: No output file selected."), <<>>)
            /\ UNCHANGED log_area
       ELSE /\ Len(log_area) < MaxLog
            /\ read_feed(write, read_file(files[input_file_path]))

SelectInputFile == \E file_path \in InputPaths \cup {""} : select_input_file(file_path)
SelectOutputFile == \E file_path \in OutputPaths \cup {""} : select_output_file(file_path)
ProcessFeed == \E write \in {"ok", "open_fails", "write_fails"} : process_feed(write)

Next == SelectInputFile \/ SelectOutputFile \/ ProcessFeed

(***************************************************************************)
(* The documents the model is run on.                                      *)
(***************************************************************************)
\* <name>s</name>, <name/> and <name>s1<!-- -->s2</name> (two text runs)
T(name, s) == Elem(name, <<>>, <<Text(s)>>)
Empty(name) == Elem(name, <<>>, <<>>)
T2(name, s1, s2) == Elem(name, <<>>, <<Text(s1), Text(s2)>>)
Link(attrs) == Elem("link", attrs, <<>>)
Entry(kids) == Elem("entry", <<>>, kids)
Feed(kids) == Elem("[document]", <<>>, <<Elem("feed", <<>>, kids)>>)
EmptyDoc == Elem("[document]", <<>>, <<>>)

Url1 == <<"h", "t", "t", "p", ":", "/", "/", "a", "/", "1">>
Url2 == <<"h", "t", "t", "p", ":", "/", "/", "a", "/", "2">>
UrlFeed == <<"h", "t", "t", "p", ":", "/", "/", "a", "/">>
ExampleDate == <<"2", "0", "1", "7", "-", "0", "6", "-", "2", "8", "T", "0", "8", ":", "1", "5", ":", "0", "0", ".", "0", "0", "1", "-", "0", "7", ":", "0", "0">>
ExampleUpdated == <<"2", "0", "2", "0", "-", "0", "1", "-", "0", "1", "T", "0", "0", ":", "0", "0", ":", "0", "0", "Z">>
NotADate == <<"n", "o", "t", "-", "a", "-", "d", "a", "t", "e">>

\* each option is the run of elements (none, one or two) it puts in the parent
TitleOpts(t) ==
    { <<>>, <<Empty("title")>>, <<T("title", <<" ">>)>>, <<T("title", t)>>,
      <<T("title", <<" ">> \o t \o <<"\n">>)>>, <<T("title", <<"\r">> \o t \o <<"U+00A0">>)>>,
      <<T("title", <<"\f", "U+2003">>)>> }
SubtitleOpts ==
    { <<>>, <<Empty("subtitle")>>, <<T("subtitle", <<"\n">>)>>, <<T("subtitle", <<"S", "u", "b">>)>> }
LinkOpts(u) ==
    { <<>>,
      <<Link(<< <<"rel", Alternate>>, <<"href", u>> >>)>>,
      <<Link(<< <<"rel", Alternate>> >>)>>,
      <<Link(<< <<"rel", <<"s", "e", "l", "f">>>>, <<"href", u>> >>)>>,
      <<Link(<< <<"href", u>> >>)>>,
      <<Link(<< <<"rel", Alternate>>, <<"href", <<>> >> >>)>>,
      <<Link(<< <<"rel", Alternate>> >>), Link(<< <<"rel", Alternate>>, <<"href", u>> >>)>> }
ContentOpts ==
    { <<>>, <<Empty("content")>>, <<T("content", <<" ">>)>>, <<T("content", <<"<", "p", ">", "x", "<", "/", "p", ">">>)>>,
      <<T2("content", <<"a">>, <<"b">>)>> }
PublishedOpts ==
    { <<>>, <<Empty("published")>>, <<T("published", <<" ">>)>>,
      <<T("published", ExampleDate)>>, <<T("published", <<"\n">> \o ExampleDate \o <<" ">>)>>,
      <<T("published", NotADate)>>, <<T("published", <<"2", "0", "1", "7", "-", "0", "6", "-", "2", "8", "T", "0", "8", ":", "1", "5", ":", "6", "0", "Z">>)>>,
      <<T2("published", <<"2", "0", "1", "7", "-", "0", "6", "-", "2", "8">>, <<"T", "0", "8", ":", "1", "5", ":", "0", "0", "Z">>)>>,
      <<T("published", <<"\r", "U+00A0">>)>>, <<T("published", <<"\r">> \o ExampleDate \o <<"U+00A0">>)>>,
      <<T("published", <<"2", "0", "1", "7", "-", "1", "7", "9">>)>>, <<T("published", <<"2", "0", "1", "7", "-", " ", "6", "-", "2", "8">>)>>,
      <<T("published", <<"2", "0", "1", "7", "-", "W", "2", "6", "-", "3", "T", "0", "8", ":", "1", "5", ":", " ", "5", "+", "0", "7", "-", "5">>)>>,
      <<T("published", <<"2", "0", "1", "7", "-", "0", "6", "-", "2", "8", "U+00E9", "0", "8", ":", "1", "5", ":", "0", "0", "Z">>)>>,
      <<T("published", <<"2", "0", "1", "7", "-", "0", "6", "-", "2", "8", "U+007F", "0", "8", ":", "1", "5", ":", "0", "0", "Z">>)>> }
UpdatedOpts ==
    { <<>>, <<Empty("updated")>>, <<T("updated", ExampleUpdated)>>,
      <<T("updated", NotADate)>>, <<T("updated", <<"2", "0", "2", "0", "-", "0", "1", "-", "0", "1">>)>> }

\* date-times with an explicit offset: the calendar date with its weekday, its
\* day of the year (yd) and its ISO week date (wy, ww, wn), the day after it with
\* its weekday, the time of day, the fraction digits, the offset
Dates ==
    { [y |-> 2017, m |-> 6, d |-> 28, yd |-> 179, wy |-> 2017, ww |-> 26, wn |-> 3, wd |-> <<"W", "e", "d">>, ny |-> 2017, nm |-> 6, nd |-> 29, nwd |-> <<"T", "h", "u">>],
      [y |-> 2020, m |-> 1, d |-> 1, yd |-> 1, wy |-> 2020, ww |-> 1, wn |-> 3, wd |-> <<"W", "e", "d">>, ny |-> 2020, nm |-> 1, nd |-> 2, nwd |-> <<"T", "h", "u">>],
      [y |-> 2020, m |-> 2, d |-> 29, yd |-> 60, wy |-> 2020, ww |-> 9, wn |-> 6, wd |-> <<"S", "a", "t">>, ny |-> 2020, nm |-> 3, nd |-> 1, nwd |-> <<"S", "u", "n">>],
      [y |-> 1999, m |-> 12, d |-> 31, yd |-> 365, wy |-> 1999, ww |-> 52, wn |-> 5, wd |-> <<"F", "r", "i">>, ny |-> 2000, nm |-> 1, nd |-> 1, nwd |-> <<"S", "a", "t">>],
      [y |-> 2000, m |-> 2, d |-> 29, yd |-> 60, wy |-> 2000, ww |-> 9, wn |-> 2, wd |-> <<"T", "u", "e">>, ny |-> 2000, nm |-> 3, nd |-> 1, nwd |-> <<"W", "e", "d">>],
      [y |-> 2021, m |-> 1, d |-> 1, yd |-> 1, wy |-> 2020, ww |-> 53, wn |-> 5, wd |-> <<"F", "r", "i">>, ny |-> 2021, nm |-> 1, nd |-> 2, nwd |-> <<"S", "a", "t">>] }
Times == { <<8, 15, 0>>, <<0, 0, 0>>, <<23, 59, 59>>, <<24, 0, 0>> }
Fractions == { <<>>, <<"0", "0", "0">>, <<"0", "0", "1">>, <<"9", "9", "9">>, <<"9", "9", "9", "9", "9", "9", "9">> }
Offsets ==
    { [text |-> <<"-", "0", "7", ":", "0", "0">>, out |-> <<"-", "0", "7", "0", "0">>], [text |-> <<"+", "0", "5", ":", "3", "0">>, out |-> <<"+", "0", "5", "3", "0">>],
      [text |-> <<"Z">>, out |-> <<"+", "0", "0", "0", "0">>], [text |-> <<"+", "0", "0", ":", "0", "0">>, out |-> <<"+", "0", "0", "0", "0">>],
      [text |-> <<"-", "0", "0", ":", "0", "0">>, out |-> <<"+", "0", "0", "0", "0">>], [text |-> <<"-", "0", "7", "0", "0">>, out |-> <<"-", "0", "7", "0", "0">>],
      [text |-> <<"+", "1", "4">>, out |-> <<"+", "1", "4", "0", "0">>] }
\* the ISO 8601 date forms: YYYY-MM-DD, YYYYMMDD, YYYY-DDD, YYYY-Www-D
DateCases ==
    { [form |-> "calendar", date |-> dd, time |-> tt, frac |-> ff, off |-> oo] :
        dd \in Dates, tt \in Times, ff \in Fractions, oo \in Offsets }
    \cup { [form |-> fm, date |-> dd, time |-> tt, frac |-> ff, off |-> oo] :
        fm \in {"basic", "ordinal", "week"}, dd \in Dates, tt \in Times,
        ff \in {<<>>, <<"0", "0", "1">>}, oo \in Offsets }

IsoDate(form, d) ==
    IF form = "calendar" THEN Pad(d.y, 4) \o <<"-">> \o Pad(d.m, 2) \o <<"-">> \o Pad(d.d, 2)
    ELSE IF form = "basic" THEN Pad(d.y, 4) \o Pad(d.m, 2) \o Pad(d.d, 2)
    ELSE IF form = "ordinal" THEN Pad(d.y, 4) \o <<"-">> \o Pad(d.yd, 3)
    ELSE Pad(d.wy, 4) \o <<"-", "W">> \o Pad(d.ww, 2) \o <<"-">> \o Pad(d.wn, 1)

\* the ISO 8601 text of a case: <date>Thh:mm:ss[.fff]<offset>
IsoText(c) ==
    IsoDate(c.form, c.date) \o <<"T">>
    \o Pad(c.time[1], 2) \o <<":">> \o Pad(c.time[2], 2) \o <<":">> \o Pad(c.time[3], 2)
    \o (IF c.frac = <<>> THEN <<>> ELSE <<".">> \o c.frac) \o c.off.text

ContentAlphabet == {"]", ">", "x"}
RECURSIVE StringsOfLen(_)
StringsOfLen(n) ==
    IF n = 0 THEN {<<>>}
    ELSE {<<c>> \o s : c \in ContentAlphabet, s \in StringsOfLen(n - 1)}
ContentStrings == UNION {StringsOfLen(n) : n \in 1..MaxContentLen}

\* the entries of the multi-entry feeds: a full entry, one with an unparseable
\* date, one with no field at all
EntryKinds ==
    { Entry(<<T("title", <<"A">>), Link(<< <<"rel", Alternate>>, <<"href", Url1>> >>),
              T("published", ExampleDate), T("content", <<"x", "]", "]", ">", "y">>)>>),
      Entry(<<T("title", <<"B">>), Link(<< <<"rel", Alternate>>, <<"href", Url2>> >>),
              T("published", NotADate), T("updated", ExampleUpdated), T("content", <<"c">>)>>),
      Entry(<<>>) }
RECURSIVE SeqsOfLen(_, _)
SeqsOfLen(S, n) ==
    IF n = 0 THEN {<<>>} ELSE {<<x>> \o s : x \in S, s \in SeqsOfLen(S, n - 1)}
EntrySeqs == UNION {SeqsOfLen(EntryKinds, n) : n \in 0..MaxEntries}

FieldFeeds ==
    { Feed(<<Entry(t \o l \o c)>>) : t \in TitleOpts(<<"A">>), l \in LinkOpts(Url1), c \in ContentOpts }
DateFeeds ==
    { Feed(<<Entry(p \o u)>>) : p \in PublishedOpts, u \in UpdatedOpts }
    \cup { Feed(<<Entry(<<T("published", IsoText(c))>>)>>) : c \in DateCases }
ContentFeeds == { Feed(<<Entry(<<T("content", s)>>)>>) : s \in ContentStrings }
\* the feed's own title, link and subtitle before or after its entries
ChannelFeeds ==
    LET meta == { t \o l \o s : t \in TitleOpts(<<"F", "e", "e", "d">>), l \in LinkOpts(UrlFeed), s \in SubtitleOpts }
    IN  { Feed(m \o es) : m \in meta, es \in EntrySeqs }
        \cup { Feed(es \o m) : m \in meta, es \in EntrySeqs }
Soups == FieldFeeds \cup DateFeeds \cup ContentFeeds \cup ChannelFeeds \cup {EmptyDoc}

\* entries that are not children of the feed: one in a wrapper, one inside another
NestedFeed ==
    Feed(<<Elem("source", <<>>, <<Entry(<<T("title", <<"N">>)>>)>>),
           Entry(<<Entry(<<T("title", <<"I">>)>>)>>)>>)

\* the files a.xml may be; b.xml is missing
Meta0 == <<T("title", <<"F", "e", "e", "d">>), Link(<< <<"rel", Alternate>>, <<"href", UrlFeed>> >>)>>
Files ==
    { [kind |-> "missing", soup |-> EmptyDoc], [kind |-> "rejected", soup |-> EmptyDoc],
      [kind |-> "malformed", soup |-> EmptyDoc] }
    \cup { [kind |-> "wellformed", soup |-> Feed(Meta0 \o es)] : es \in EntrySeqs }
    \cup { [kind |-> "wellformed", soup |-> Feed(es)] : es \in EntrySeqs }
    \cup { [kind |-> "malformed", soup |-> Feed(Meta0 \o es)] : es \in SeqsOfLen(EntryKinds, 1) }
    \cup { [kind |-> "wellformed", soup |-> NestedFeed] }

(***************************************************************************)
(* The specifications.                                                     *)
(***************************************************************************)
\* the state after AtomToRSSConverterApp.__init__ (lines 9-18)
InitApp ==
    /\ input_file_path = NoPath
    /\ output_file_path = NoPath
    /\ log_area = <<>>
    /\ dialog = NoDialog
    /\ opened = <<>>
    /\ disk = [p \in OutputPaths |-> NoFile]
    /\ rss_soup = None
    /\ count_items = 0

Init ==
    /\ InitApp
    /\ atom_soup = None
    /\ \E f \in Files :
         files = [p \in InputPaths |-> IF p = "a.xml" THEN f
                                       ELSE [kind |-> "missing", soup |-> EmptyDoc]]

Spec == Init /\ [][Next]_vars

\* The conversion proper (lines 92-183) as a function of the parsed feed: the
\* feed is drawn from Soups and Transform applies build_rss to it.
InitTransform ==
    /\ InitApp
    /\ files = [p \in InputPaths |-> [kind |-> "missing", soup |-> EmptyDoc]]
    /\ \E soup \in Soups : atom_soup = Some(soup)

TransformTo(built) ==
    /\ rss_soup' = Some(built.rss_soup)
    /\ count_items' = built.count_items

Transform ==
    /\ atom_soup # None
    /\ rss_soup = None
    /\ TransformTo(build_rss(atom_soup[1]))
    /\ UNCHANGED <<input_file_path, output_file_path, log_area, dialog, opened,
                   files, disk, atom_soup>>

NextTransform == Transform

SpecTransform == InitTransform /\ [][NextTransform]_vars

(***************************************************************************)
(* Vocabulary of the properties.                                           *)
(***************************************************************************)
\* the entries of the feed converted last and the items made from them
Entries == find_all(atom_soup[1], "entry")
Items == ItemsOf(rss_soup[1])
ChannelText(name) == ChildText(ChannelOf(rss_soup[1]), name)

\* what an entry offers: its first title's trimmed text, the href of its first
\* rel="alternate" link, the text of its content
EntryTitle(e) ==
    IF find(e, "title") = None THEN None ELSE Some(get_text_strip(find(e, "title")[1]))
EntryLink(e) ==
    IF find_rel(e, "link", Alternate) # None /\ has_attr(find_rel(e, "link", Alternate)[1], "href")
    THEN Some(get_attr(find_rel(e, "link", Alternate)[1], "href")) ELSE None
TextOf(e, name) == IF find(e, name) = None THEN None ELSE string(find(e, name)[1])
NonEmpty(opt) == opt # None /\ opt[1] # <<>>
NonBlank(opt) == opt # None /\ strip(opt[1]) # <<>>

\* the last line of the log is the success message for n items
ReportedSuccess(n) ==
    /\ dialog = showinfo("Done")
    /\ log_area # <<>>
    /\ log_area[Len(log_area)].text = SuccessText
    /\ log_area[Len(log_area)].arg = n

\* the file at the selected output path holds a document of n items
WrittenItems(n) ==
    /\ disk[output_file_path].exists
    /\ disk[output_file_path].text # None
    /\ Len(ItemsOf(disk[output_file_path].text[1])) = n

\* the characters written for the content:encoded of the i-th item of the file
WrittenContent(i) ==
    ChildText(ItemsOf(disk[output_file_path].text[1])[i], "content:encoded")

\* the first position of p in s at or after from, 0 when there is none
RECURSIVE IndexOf(_, _, _)
IndexOf(s, p, from) ==
    IF from + Len(p) - 1 > Len(s) THEN 0
    ELSE IF SubSeq(s, from, from + Len(p) - 1) = p THEN from
    ELSE IndexOf(s, p, from + 1)

\* v read as a run of CDATA sections: each ends at its first "]]>", the contents
\* are concatenated; Fail when some text lies outside a section
RECURSIVE DecodeCData(_)
DecodeAfter(body, k) ==
    IF k = 0 THEN Fail
    ELSE IF ~DecodeCData(SubSeq(body, k + 3, Len(body))).ok THEN Fail
    ELSE Ok(SubSeq(body, 1, k - 1) \o DecodeCData(SubSeq(body, k + 3, Len(body))).v)
DecodeCData(v) ==
    IF v = <<>> THEN Ok(<<>>)
    ELSE IF ~startswith(v, CDataOpen) THEN Fail
    ELSE DecodeAfter(SubSeq(v, Len(CDataOpen) + 1, Len(v)),
                     IndexOf(SubSeq(v, Len(CDataOpen) + 1, Len(v)), CDataClose, 1))

\* "Www, DD Mon YYYY HH:MM:SS +hhmm"
Rfc822(wd, y, m, d, time, zone) ==
    wd \o <<",", " ">> \o Pad(d, 2) \o <<" ">> \o MonthNames[m] \o <<" ">> \o Pad(y, 4)
    \o <<" ">> \o Pad(time[1], 2) \o <<":">> \o Pad(time[2], 2) \o <<":">> \o Pad(time[3], 2)
    \o <<" ">> \o zone
\* a case isoparse accepts: 24:00:00 only with a zero fraction
Parseable(c) == c.time[1] < 24 \/ c.frac \in {<<>>, <<"0", "0", "0">>}
\* the same date, time of day and offset
SameFields(c) == Rfc822(c.date.wd, c.date.y, c.date.m, c.date.d, c.time, c.off.out)
\* the same, with 24:00:00 written as 00:00:00 of the next day
Normalised(c) ==
    IF c.time[1] = 24
    THEN Rfc822(c.date.nwd, c.date.ny, c.date.nm, c.date.nd, <<0, 0, 0>>, c.off.out)
    ELSE SameFields(c)
\* the feed converted last is one entry whose only child is a published element
OnePublished ==
    /\ rss_soup # None
    /\ Len(Entries) = 1
    /\ Len(Entries[1].kids) = 1
    /\ Entries[1].kids[1].name = "published"
\* ... and that element is <published>text</published>
OnlyPublished(text) == Entries[1].kids = <<T("published", text)>>

(***************************************************************************)
(* The properties.                                                         *)
(***************************************************************************)

\* C1: a conversion that builds the RSS tree makes exactly one item per entry
\* element of the document, the i-th item from the i-th entry (its title and
\* link are that entry's), count_items is the number of entries, and a reported
\* success names that number and the written document holds that many items.
C1_EntryCountPreserved ==
    rss_soup # None =>
        /\ Len(Items) = Len(Entries)
        /\ count_items = Len(Entries)
        /\ \A i \in 1..Len(Entries) :
              /\ ChildText(Items[i], "title") = EntryTitle(Entries[i])
              /\ ChildText(Items[i], "link") = EntryLink(Entries[i])
        /\ dialog.kind = "showinfo" =>
              ReportedSuccess(Len(Entries)) /\ WrittenItems(Len(Entries))

\* C1 witness: success on a feed of two different entries, the second without
\* any field
C1_Witness ==
    /\ rss_soup # None
    /\ dialog.kind = "showinfo"
    /\ Len(Entries) = 2
    /\ Entries[1].kids # <<>>
    /\ Entries[2].kids = <<>>

\* C2 (as stated): the channel title is the default when the source has no
\* title or its trimmed text is empty, else the trimmed text; the description
\* likewise from subtitle; the link is the default when there is no
\* rel="alternate" link or it has no href, else the href; none of them is empty.
C2_ChannelDefaults ==
    rss_soup # None =>
        /\ ChannelText("title") =
              Some(IF NonBlank(EntryTitle(atom_soup[1])) THEN EntryTitle(atom_soup[1])[1]
                   ELSE DefaultTitle)
        /\ ChannelText("description") =
              Some(IF find(atom_soup[1], "subtitle") # None
                      /\ get_text_strip(find(atom_soup[1], "subtitle")[1]) # <<>>
                   THEN get_text_strip(find(atom_soup[1], "subtitle")[1])
                   ELSE DefaultDescription)
        /\ ChannelText("link") =
              Some(IF EntryLink(atom_soup[1]) # None THEN EntryLink(atom_soup[1])[1]
                   ELSE DefaultLink)
        /\ ChannelText("title") # Some(<<>>)
        /\ ChannelText("description") # Some(<<>>)
        /\ ChannelText("link") # Some(<<>>)

\* C3 (as stated): an item has a title exactly when its entry has a title with
\* non-empty trimmed text, a link exactly when the entry's rel="alternate" link
\* has an href, a content:encoded exactly when the entry's content has text.
C3_FieldPresence ==
    rss_soup # None =>
        \A i \in 1..Len(Entries) :
            /\ ChildText(Items[i], "title") # None <=> NonBlank(EntryTitle(Entries[i]))
            /\ ChildText(Items[i], "link") # None <=> EntryLink(Entries[i]) # None
            /\ ChildText(Items[i], "content:encoded") # None
                  <=> NonEmpty(TextOf(Entries[i], "content"))

\* C4 (as stated): the pubDate is made from the published text when that is
\* present and not empty or blank, otherwise from the updated text when that is
\* present and not empty or blank, otherwise there is no pubDate.
C4_DateFallback ==
    rss_soup # None =>
        \A i \in 1..Len(Entries) :
            Children(Items[i], "pubDate") =
                pubDate_of(IF NonBlank(TextOf(Entries[i], "published"))
                           THEN Some(strip(TextOf(Entries[i], "published")[1]))
                           ELSE IF NonBlank(TextOf(Entries[i], "updated"))
                           THEN Some(strip(TextOf(Entries[i], "updated")[1]))
                           ELSE None)

\* C5: an entry whose date string is present but unparseable gets an item with
\* no pubDate and with its title, link and content:encoded as the entry gives
\* them; every entry still gets its item, an entry with a parseable date keeps
\* its pubDate, and unless the write itself fails the output is written and
\* success is reported with the full item count.
UnparseableDates == {NotADate}
C5_BadDateIsLocal ==
    rss_soup # None =>
        /\ Len(Items) = Len(Entries)
        /\ \A i \in 1..Len(Entries) :
              /\ (NonEmpty(entry_date_str(Entries[i]))
                    /\ entry_date_str(Entries[i])[1] \in UnparseableDates)
                 => /\ Children(Items[i], "pubDate") = <<>>
                    /\ ChildText(Items[i], "title") = EntryTitle(Entries[i])
                    /\ ChildText(Items[i], "link") = EntryLink(Entries[i])
                    /\ ChildText(Items[i], "content:encoded") # None
                          <=> NonEmpty(TextOf(Entries[i], "content"))
              /\ TextOf(Entries[i], "published") = Some(ExampleDate)
                 => Children(Items[i], "pubDate") # <<>>
        /\ (dialog.kind # "none" /\ dialog.title # "Write Error") =>
              ReportedSuccess(Len(Entries)) /\ WrittenItems(Len(Entries))

\* C5 witness: success on two entries, the first with the unparseable date and
\* no pubDate, the second with its pubDate
C5_Witness ==
    /\ rss_soup # None
    /\ ReportedSuccess(2)
    /\ Len(Entries) = 2
    /\ TextOf(Entries[1], "published") = Some(NotADate)
    /\ Children(Items[1], "pubDate") = <<>>
    /\ Children(Items[1], "title") # <<>>
    /\ Children(Items[2], "pubDate") # <<>>

\* C6 (as stated): a convert click with both paths selected on an input that
\* cannot be read or is not well-formed XML reports an error, opens no output
\* file, converts nothing and reports no success.
C6_BadInputAborts ==
    (/\ dialog.kind # "none"
     /\ input_file_path # NoPath
     /\ output_file_path # NoPath
     /\ files[input_file_path].kind # "wellformed")
    => /\ dialog.kind = "showerror"
       /\ rss_soup = None
       /\ \A i \in 1..Len(opened) : opened[i].mode # "w"
       /\ disk = [p \in OutputPaths |-> NoFile]

\* C7 (as stated): after a successful conversion, for an entry whose content
\* text s is not empty, the content:encoded value in the written file is
\* "<![CDATA[" followed by s with every "]]>" replaced by "]]]]><![CDATA[>"
\* followed by "]]>", and read as a run of CDATA sections it gives back s, with
\* nothing outside a section.
C7_CDataRoundTrip ==
    (rss_soup # None /\ dialog = showinfo("Done")) =>
        \A i \in 1..Len(Entries) :
            NonEmpty(TextOf(Entries[i], "content")) =>
                /\ WrittenContent(i) =
                      Some(CDataOpen
                           \o replace(TextOf(Entries[i], "content")[1], CDataClose, CDataSplit)
                           \o CDataClose)
                /\ DecodeCData(WrittenContent(i)[1]) = Ok(TextOf(Entries[i], "content")[1])

\* C8 (as stated): a parseable date-time with an explicit offset is rendered
\* with the same date, the same time of day in whole seconds and the same
\* offset, under the weekday of that date.
C8_SameDateAndTime ==
    OnePublished =>
        \A c \in DateCases :
            (OnlyPublished(IsoText(c)) /\ Parseable(c))
            => ChildText(Items[1], "pubDate") = Some(SameFields(c))

\* C8 (amended): the same, except that the end-of-day time 24:00:00 is rendered
\* as 00:00:00 of the following day, under that day's weekday.
C8_DateRendering ==
    OnePublished =>
        \A c \in DateCases :
            (OnlyPublished(IsoText(c)) /\ Parseable(c))
            => ChildText(Items[1], "pubDate") = Some(Normalised(c))

\* C8 witness: the example of the specification was converted
C8_Witness ==
    /\ OnePublished
    /\ OnlyPublished(ExampleDate)
    /\ ChildText(Items[1], "pubDate") = Some(<<"W", "e", "d", ",", " ", "2", "8", " ", "J", "u", "n", " ", "2", "0", "1", "7", " ", "0", "8", ":", "1", "5", ":", "0", "0", " ", "-", "0", "7", "0", "0">>)

\* C9: the channel title is the trimmed text of the first title element of the
\* whole document (the default when there is none), the description that of the
\* first subtitle, the link the href of the first rel="alternate" link; so a
\* feed without a title of its own takes the title of its first entry that has
\* one, while each item's title and link come from inside its own entry.
FeedElem == atom_soup[1].kids[1]
TitledEntries == SelectSeq(Entries, LAMBDA e : find(e, "title") # None)
C9_FirstMatchAnywhere ==
    (rss_soup # None /\ atom_soup[1].kids # <<>>) =>
        /\ ChannelText("title") =
              Some(IF SelectSeq(descendants(atom_soup[1]), LAMBDA n : n.name = "title") = <<>>
                   THEN DefaultTitle
                   ELSE get_text_strip(
                          SelectSeq(descendants(atom_soup[1]), LAMBDA n : n.name = "title")[1]))
        /\ ChannelText("description") =
              Some(IF SelectSeq(descendants(atom_soup[1]), LAMBDA n : n.name = "subtitle") = <<>>
                   THEN DefaultDescription
                   ELSE get_text_strip(
                          SelectSeq(descendants(atom_soup[1]), LAMBDA n : n.name = "subtitle")[1]))
        /\ ChannelText("link") =
              Some(IF EntryLink(atom_soup[1]) = None THEN DefaultLink
                   ELSE EntryLink(atom_soup[1])[1])
        /\ (Children(FeedElem, "title") = <<>> /\ TitledEntries # <<>>)
           => ChannelText("title") = EntryTitle(TitledEntries[1])
        /\ \A i \in 1..Len(Entries) :
              /\ ChildText(Items[i], "title") = EntryTitle(Entries[i])
              /\ ChildText(Items[i], "link") = EntryLink(Entries[i])

\* C9 witness: a feed with no title of its own whose first entry has no field
\* and whose second entry has a title: the channel takes the second entry's
\* title and the first item has none
C9_Witness ==
    /\ rss_soup # None
    /\ atom_soup[1].kids # <<>>
    /\ Children(FeedElem, "title") = <<>>
    /\ Len(Entries) = 2
    /\ Entries[1].kids = <<>>
    /\ EntryTitle(Entries[2]) # None
    /\ ChannelText("title") = EntryTitle(Entries[2])
    /\ Children(Items[1], "title") = <<>>

\* C10: a convert click (the steps that show a message box) never changes a
\* selected path; with a path missing it shows an error and opens, writes and
\* logs nothing; a file is opened only with both paths selected; a cancelled
\* dialog (a step without message box and without log line) leaves both paths as
\* they were; success is shown only when the output file was opened and holds
\* the document built in that run.
C10_ConvertNeedsBothPaths ==
    [][ /\ dialog'.kind # "none"
           => /\ input_file_path' = input_file_path
              /\ output_file_path' = output_file_path
        /\ (dialog'.kind # "none" /\ (input_file_path = NoPath \/ output_file_path = NoPath))
           => /\ dialog'.kind = "showerror"
              /\ opened' = <<>>
              /\ disk' = disk
              /\ log_area' = log_area
        /\ opened' # <<>> => (input_file_path # NoPath /\ output_file_path # NoPath)
        /\ (dialog'.kind = "none" /\ log_area' = log_area)
           => /\ input_file_path' = input_file_path
              /\ output_file_path' = output_file_path
        /\ dialog'.kind = "showinfo"
           => /\ \E i \in 1..Len(opened') :
                    opened'[i] = [path |-> output_file_path, mode |-> "w"]
              /\ disk'[output_file_path].text = Some(prettify(rss_soup'[1]))
      ]_vars

\* C10 witness: a convert click with an input path but no output path
C10_Witness ==
    /\ dialog = showerror("Error: No output file selected.")
    /\ input_file_path # NoPath
    /\ output_file_path = NoPath
    /\ log_area # <<>>

=============================================================================
